---- MODULE Spec2Model ----
(***************************************************************************)
(* Model of notebooks/otsu_water_detection.py: Otsu threshold selection    *)
(* over a bucketed histogram, the per-ward threshold calculation, the      *)
(* ward-wise water mask and the water frequency surface.                   *)
(*                                                                         *)
(* The Earth Engine objects the code manipulates are modelled by the       *)
(* values they denote.  ee.Number / ee.Array elements are exact rationals  *)
(* [num, den] (floating-point rounding is not modelled).  An image pixel   *)
(* is a record [mask, value]: Earth Engine images carry a validity mask    *)
(* beside their values.  The library operations are modelled as the Earth  *)
(* Engine API documents them:                                              *)
(*   - divide: "returning 0 for division by 0";                            *)
(*   - ee.Array.sort(keys): ascending by key, equal keys keeping their     *)
(*     original order (stable);                                            *)
(*   - ee.Image.clip: "data not covered by the geometry is masked";        *)
(*   - a binary image operator (Or): the output pixel is masked where      *)
(*     either input pixel is masked;                                       *)
(*   - ee.ImageCollection.sum: masked pixels are skipped, the output is    *)
(*     masked where no input is valid.                                     *)
(***************************************************************************)
EXTENDS Integers, Sequences, FiniteSets

VARIABLES
    histogram_dict,   \* calculate_otsu_threshold: its argument
    bss,              \* calculate_otsu_threshold: indices.map(calc_bss), so far
    threshold,        \* calculate_otsu_threshold: the returned value
    otsu_pc,          \* calculate_otsu_threshold: position
    ward_histograms,  \* calculate_ward_specific_thresholds: per ward, the histogram or its failure
    features,         \* calculate_ward_specific_thresholds: wards_with_thresholds, so far
    ward_thresholds,  \* calculate_ward_specific_thresholds: the returned dict, so far
    ward_pc,          \* calculate_ward_specific_thresholds: position
    filtered_band,    \* detect_water_with_ward_thresholds: the image's pixels
    ward_geoms,       \* detect_water_with_ward_thresholds: per ward, the pixels it covers
    mask_thresholds,  \* detect_water_with_ward_thresholds: its ward_thresholds argument
    water_mask,       \* detect_water_with_ward_thresholds: the running mask
    mask_done,        \* detect_water_with_ward_thresholds: wards already applied
    mask_pc,          \* detect_water_with_ward_thresholds: position
    water_collection, \* create_permanent_water_with_otsu: the masks of step 2
    water_count,      \* create_permanent_water_with_otsu: size of the collection
    water_frequency,  \* create_permanent_water_with_otsu: the returned surface
    freq_error,       \* create_permanent_water_with_otsu: the exception raised, if any
    freq_pc           \* create_permanent_water_with_otsu: position

otsu_vars == <<histogram_dict, bss, threshold, otsu_pc>>
ward_vars == <<ward_histograms, features, ward_thresholds, ward_pc>>
mask_vars == <<filtered_band, ward_geoms, mask_thresholds, water_mask, mask_done, mask_pc>>
freq_vars == <<water_collection, water_count, water_frequency, freq_error, freq_pc>>
vars == <<otsu_vars, ward_vars, mask_vars, freq_vars>>

(***************************************************************************)
(* Bounds of the model.                                                    *)
(***************************************************************************)
MaxBuckets == 3
MaxCount == 2
MaxWards == 2
MaxPixels == 3
MaxImages == 2
MaxFreqPixels == 2

(***************************************************************************)
(* Exact rational arithmetic for ee.Number.                                *)
(***************************************************************************)
Abs(x) == IF x < 0 THEN -x ELSE x

RECURSIVE GCD(_, _)
GCD(a, b) == IF b = 0 THEN a ELSE GCD(b, a % b)

\* The rational n/d in lowest terms with a positive denominator (d # 0).
Rat(n, d) ==
    LET g == GCD(Abs(n), Abs(d))
        s == IF d < 0 THEN -1 ELSE 1
    IN  [num |-> (s * n) \div g, den |-> (s * d) \div g]

Num(k) == [num |-> k, den |-> 1]

\* The least common denominator of a and b.
CommonDen(a, b) == (a.den \div GCD(a.den, b.den)) * b.den

\* The numerator of a over the denominator d, a multiple of a.den.
NumOver(a, d) == a.num * (d \div a.den)

add(a, b) ==
    LET d == CommonDen(a, b) IN Rat(NumOver(a, d) + NumOver(b, d), d)

subtract(a, b) ==
    LET d == CommonDen(a, b) IN Rat(NumOver(a, d) - NumOver(b, d), d)

multiply(a, b) ==
    LET g1 == GCD(Abs(a.num), b.den)
        g2 == GCD(Abs(b.num), a.den)
    IN  Rat((a.num \div g1) * (b.num \div g2), (a.den \div g2) * (b.den \div g1))

\* ee.Number.divide: "Divides the first value by the second, returning 0 for
\* division by 0."
divide(a, b) ==
    IF b.num = 0 THEN Num(0)
    ELSE multiply(a, Rat(b.den, b.num))

pow2(a) == multiply(a, a)

lt(a, b) == LET d == CommonDen(a, b) IN NumOver(a, d) < NumOver(b, d)

lte(a, b) == LET d == CommonDen(a, b) IN NumOver(a, d) <= NumOver(b, d)

(***************************************************************************)
(* ee.Array helpers.                                                       *)
(***************************************************************************)
RECURSIVE SumSeq(_)
\* reduce(ee.Reducer.sum(), [0]).get([0]) of an array of integers
SumSeq(s) == IF s = <<>> THEN 0 ELSE Head(s) + SumSeq(Tail(s))

\* a.multiply(b), element by element
MultiplySeq(a, b) == [k \in 1..Len(a) |-> a[k] * b[k]]

\* array.slice(0, 0, i): the first i elements
slice(s, i) == SubSeq(s, 1, i)

\* Whether position a sorts before the already placed position b (b < a in the
\* original order): on a strictly smaller key, and with tiesFirst on an equal one.
Before(keys, a, b, tiesFirst) ==
    IF tiesFirst THEN lte(keys[a], keys[b]) ELSE lt(keys[a], keys[b])

RECURSIVE InsertByKey(_, _, _, _)
\* Position k inserted into the sorted positions s, before the first position
\* it sorts before.
InsertByKey(s, k, keys, tiesFirst) ==
    IF s = <<>> THEN <<k>>
    ELSE IF Before(keys, k, Head(s), tiesFirst) THEN <<k>> \o s
    ELSE <<Head(s)>> \o InsertByKey(Tail(s), k, keys, tiesFirst)

RECURSIVE SortedPositions(_, _, _)
\* The positions 1..n in ascending order of their keys.
SortedPositions(n, keys, tiesFirst) ==
    IF n = 0 THEN <<>>
    ELSE InsertByKey(SortedPositions(n - 1, keys, tiesFirst), n, keys, tiesFirst)

\* A sort that puts an element before the elements of equal key that precede it.
sort_ties_reversed(values, keys) ==
    LET pos == SortedPositions(Len(keys), keys, TRUE)
    IN  [j \in 1..Len(values) |-> values[pos[j]]]

\* ee.Array.sort(keys): the values in ascending order of their keys, values of
\* equal key in their original order.
sort(values, keys) ==
    LET pos == SortedPositions(Len(keys), keys, FALSE)
    IN  [j \in 1..Len(values) |-> values[pos[j]]]

\* array.get([-1]): the last element
get_last(s) == s[Len(s)]

(***************************************************************************)
(* calculate_otsu_threshold                                                *)
(***************************************************************************)
Counts(h) == h.histogram
Means(h) == h.bucketMeans
Size(h) == Len(Means(h))
Total(h) == SumSeq(Counts(h))
SumVal(h) == SumSeq(MultiplySeq(Means(h), Counts(h)))
Mean(h) == divide(Num(SumVal(h)), Num(Total(h)))

ACount(h, i) == SumSeq(slice(Counts(h), i))
AMean(h, i) ==
    divide(Num(SumSeq(MultiplySeq(slice(Means(h), i), slice(Counts(h), i)))),
           Num(ACount(h, i)))
BCount(h, i) == Total(h) - ACount(h, i)
BMean(h, i) ==
    divide(subtract(Num(SumVal(h)), multiply(Num(ACount(h, i)), AMean(h, i))),
           Num(BCount(h, i)))

\* A between-class variance that weighs class B by the whole histogram's count.
calc_bss_total_weight(h, i) ==
    add(multiply(Num(ACount(h, i)), pow2(subtract(AMean(h, i), Mean(h)))),
        multiply(Num(Total(h)), pow2(subtract(BMean(h, i), Mean(h)))))

\* calc_bss(i): the between-class variance of the split after the first i buckets
calc_bss(h, i) ==
    add(multiply(Num(ACount(h, i)), pow2(subtract(AMean(h, i), Mean(h)))),
        multiply(Num(BCount(h, i)), pow2(subtract(BMean(h, i), Mean(h)))))

\* indices = ee.List.sequence(1, size)
indices(h) == 1..Size(h)

\* The return statement with the variances returned in place of the means.
otsu_return_variance(h, keys) == get_last(sort(keys, keys))

\* return means.sort(bss).get([-1])
otsu_return(h, keys) == get_last(sort([k \in 1..Size(h) |-> Num(Means(h)[k])], keys))

\* The whole function, as its callers use it.
calculate_otsu_threshold(h) ==
    otsu_return(h, [i \in 1..Size(h) |-> calc_bss(h, i)])

(***************************************************************************)
(* Histograms the reducer can hand to the solver: bucket means in          *)
(* ascending order, non-negative counts of positive sum.                   *)
(***************************************************************************)
BucketMeanValues == {-20, -18, -15, -12, -10}
CountValues == 0..MaxCount

\* The histogram of the end-to-end scenario.
ScenarioHistogram ==
    [histogram |-> <<100, 10, 100>>, bucketMeans |-> <<-20, -15, -10>>]

Histograms ==
    UNION { { [histogram |-> c, bucketMeans |-> m] :
                c \in {x \in [1..n -> CountValues] : SumSeq(x) > 0},
                m \in {y \in [1..n -> BucketMeanValues] :
                          \A k \in 1..(n - 1) : y[k] < y[k + 1]} } :
            n \in 1..MaxBuckets }
    \cup {ScenarioHistogram}

OtsuIdle ==
    /\ histogram_dict = [histogram |-> <<1>>, bucketMeans |-> <<-15>>]
    /\ bss = <<>>
    /\ threshold = Num(0)
    /\ otsu_pc = "idle"

OtsuInit ==
    /\ histogram_dict \in Histograms
    /\ bss = <<>>
    /\ threshold = Num(0)
    /\ otsu_pc = "map"

\* bss = indices.map(calc_bss), one index at a time
OtsuMap ==
    /\ otsu_pc = "map"
    /\ Len(bss) + 1 \in indices(histogram_dict)
    /\ bss' = Append(bss, calc_bss(histogram_dict, Len(bss) + 1))
    /\ UNCHANGED <<histogram_dict, threshold, otsu_pc>>
    /\ UNCHANGED <<ward_vars, mask_vars, freq_vars>>

OtsuReturn ==
    /\ otsu_pc = "map"
    /\ Len(bss) = Size(histogram_dict)
    /\ threshold' = otsu_return(histogram_dict, bss)
    /\ otsu_pc' = "done"
    /\ UNCHANGED <<histogram_dict, bss>>
    /\ UNCHANGED <<ward_vars, mask_vars, freq_vars>>

OtsuNext == OtsuMap \/ OtsuReturn

(***************************************************************************)
(* calculate_ward_specific_thresholds                                      *)
(***************************************************************************)
\* threshold = ee.Number(-15), and the default of .get('otsu_threshold', -15)
FallbackThreshold == -15

\* Histograms of the wards' composites.
WardHistogramSamples ==
    { ScenarioHistogram,
      [histogram |-> <<1, 1>>, bucketMeans |-> <<-20, -15>>],
      [histogram |-> <<2, 0, 1>>, bucketMeans |-> <<-18, -15, -12>>],
      [histogram |-> <<0, 2>>, bucketMeans |-> <<-12, -10>>] }

\* What the try block of calculate_ward_threshold meets for a ward: a histogram
\* the solver handles, or an exception (the ward has no histogram).
WardOutcomes ==
    [raises : {FALSE}, histogram : WardHistogramSamples]
        \cup {[raises |-> TRUE, histogram |-> [histogram |-> <<>>, bucketMeans |-> <<>>]]}

\* calculate_ward_threshold(ward_feature): the properties of the returned feature
calculate_ward_threshold(ward_id, outcome) ==
    [ward_id |-> ward_id,
     otsu_threshold |-> IF outcome.raises THEN Num(FallbackThreshold)
                        ELSE calculate_otsu_threshold(outcome.histogram),
     threshold_calculated |-> TRUE]

WardIdle ==
    /\ ward_histograms = <<>>
    /\ features = <<>>
    /\ ward_thresholds = <<>>
    /\ ward_pc = "idle"

WardInit ==
    /\ \E n \in 1..MaxWards : ward_histograms \in [1..n -> WardOutcomes]
    /\ features = <<>>
    /\ ward_thresholds = <<>>
    /\ ward_pc = "map"

\* wards_with_thresholds = wards_fc.map(calculate_ward_threshold), one ward at a time
WardMap ==
    /\ ward_pc = "map"
    /\ Len(features) < Len(ward_histograms)
    /\ LET w == Len(features) + 1
       IN  features' = Append(features, calculate_ward_threshold(w, ward_histograms[w]))
    /\ UNCHANGED <<ward_histograms, ward_thresholds, ward_pc>>
    /\ UNCHANGED <<otsu_vars, mask_vars, freq_vars>>

\* threshold_data = wards_with_thresholds.getInfo()
WardGetInfo ==
    /\ ward_pc = "map"
    /\ Len(features) = Len(ward_histograms)
    /\ ward_pc' = "collect"
    /\ UNCHANGED <<ward_histograms, features, ward_thresholds>>
    /\ UNCHANGED <<otsu_vars, mask_vars, freq_vars>>

\* for feature in threshold_data['features']: ward_thresholds[ward_id] = threshold
WardCollect ==
    /\ ward_pc = "collect"
    /\ Len(ward_thresholds) < Len(features)
    /\ LET feature == features[Len(ward_thresholds) + 1]
       IN  ward_thresholds' = Append(ward_thresholds, feature.otsu_threshold)
    /\ UNCHANGED <<ward_histograms, features, ward_pc>>
    /\ UNCHANGED <<otsu_vars, mask_vars, freq_vars>>

\* return ward_thresholds
WardReturn ==
    /\ ward_pc = "collect"
    /\ Len(ward_thresholds) = Len(features)
    /\ ward_pc' = "done"
    /\ UNCHANGED <<ward_histograms, features, ward_thresholds>>
    /\ UNCHANGED <<otsu_vars, mask_vars, freq_vars>>

WardNext == WardMap \/ WardGetInfo \/ WardCollect \/ WardReturn

(***************************************************************************)
(* detect_water_with_ward_thresholds                                       *)
(***************************************************************************)
MaskedPixel == [mask |-> 0, value |-> 0]
ValidPixel(v) == [mask |-> 1, value |-> v]

\* Backscatter values of the image, thresholds of the wards.
PixelValues == {-18, -12}
ThresholdValues == {-16, -14}

\* ee.Image(0)
ConstantImage(pixels, v) == [p \in pixels |-> ValidPixel(v)]

\* image.lt(threshold): 1 where the value is below the threshold, 0 elsewhere
ImageLt(image, t) ==
    [p \in DOMAIN image |->
        IF image[p].mask = 0 THEN MaskedPixel
        ELSE ValidPixel(IF image[p].value < t THEN 1 ELSE 0)]

\* image.clip(geometry): "data not covered by the geometry is masked"
Clip(image, geom) ==
    [p \in DOMAIN image |-> IF p \in geom THEN image[p] ELSE MaskedPixel]

\* image1.Or(image2): 1 where either value is non-zero; masked where either
\* input is masked
Or(a, b) ==
    [p \in DOMAIN a |->
        IF a[p].mask = 0 \/ b[p].mask = 0 THEN MaskedPixel
        ELSE ValidPixel(IF a[p].value # 0 \/ b[p].value # 0 THEN 1 ELSE 0)]

MaskIdle ==
    /\ filtered_band = <<>>
    /\ ward_geoms = <<>>
    /\ mask_thresholds = <<>>
    /\ water_mask = <<>>
    /\ mask_done = 0
    /\ mask_pc = "idle"

\* The state after water_mask = ee.Image(0)
MaskInit ==
    /\ \E np \in 1..MaxPixels :
          /\ filtered_band \in [1..np -> {ValidPixel(v) : v \in PixelValues}]
          /\ water_mask = ConstantImage(1..np, 0)
          /\ \E n \in 1..MaxWards :
                /\ ward_geoms \in [1..n -> (SUBSET (1..np)) \ {{}}]
                /\ mask_thresholds \in [1..n -> ThresholdValues]
    /\ mask_done = 0
    /\ mask_pc = "loop"

\* One iteration of: for ward_id, threshold in ward_thresholds.items()
MaskApplyWard ==
    /\ mask_pc = "loop"
    /\ mask_done < Len(mask_thresholds)
    /\ LET ward_id == mask_done + 1
           ward_water == Clip(ImageLt(filtered_band, mask_thresholds[ward_id]),
                              ward_geoms[ward_id])
       IN  water_mask' = Or(water_mask, ward_water)
    /\ mask_done' = mask_done + 1
    /\ UNCHANGED <<filtered_band, ward_geoms, mask_thresholds, mask_pc>>
    /\ UNCHANGED <<otsu_vars, ward_vars, freq_vars>>

\* return water_mask.rename('water')
MaskReturn ==
    /\ mask_pc = "loop"
    /\ mask_done = Len(mask_thresholds)
    /\ mask_pc' = "done"
    /\ UNCHANGED <<filtered_band, ward_geoms, mask_thresholds, water_mask, mask_done>>
    /\ UNCHANGED <<otsu_vars, ward_vars, freq_vars>>

MaskNext == MaskApplyWard \/ MaskReturn

(***************************************************************************)
(* create_permanent_water_with_otsu, step 3                                *)
(***************************************************************************)
FreqPixels == 1..MaxFreqPixels

\* A pixel of a water mask of the collection.
MaskPixels == {ValidPixel(0), ValidPixel(1), MaskedPixel}

RECURSIVE SumValid(_, _)
\* The sum at pixel p of the images' values, masked pixels skipped.
SumValid(images, p) ==
    IF images = <<>> THEN 0
    ELSE (IF Head(images)[p].mask = 1 THEN Head(images)[p].value ELSE 0)
         + SumValid(Tail(images), p)

\* collection.sum(): masked where no image is valid
CollectionSum(images) ==
    [p \in FreqPixels |->
        IF \E k \in 1..Len(images) : images[k][p].mask = 1
        THEN [mask |-> 1, value |-> Num(SumValid(images, p))]
        ELSE [mask |-> 0, value |-> Num(0)]]

\* A division by one more than the size of the collection.
ImageDivideOffByOne(image, n) ==
    [p \in DOMAIN image |->
        [mask |-> image[p].mask,
         value |-> IF image[p].mask = 1 THEN divide(image[p].value, Num(n + 1)) ELSE Num(0)]]

\* image.divide(n): each valid value divided, 0 for a division by 0
ImageDivide(image, n) ==
    [p \in DOMAIN image |->
        [mask |-> image[p].mask,
         value |-> IF image[p].mask = 1 THEN divide(image[p].value, Num(n)) ELSE Num(0)]]

FreqIdle ==
    /\ water_collection = <<>>
    /\ water_count = 0
    /\ water_frequency = <<>>
    /\ freq_error = "none"
    /\ freq_pc = "idle"

\* The state after step 2: the collection of water masks
FreqInit ==
    /\ \E n \in 0..MaxImages : water_collection \in [1..n -> [FreqPixels -> MaskPixels]]
    /\ water_count = 0
    /\ water_frequency = <<>>
    /\ freq_error = "none"
    /\ freq_pc = "count"

\* water_count = water_collection.size().getInfo()
FreqCount ==
    /\ freq_pc = "count"
    /\ water_count' = Len(water_collection)
    /\ freq_pc' = "divide"
    /\ UNCHANGED <<water_collection, water_frequency, freq_error>>
    /\ UNCHANGED <<otsu_vars, ward_vars, mask_vars>>

\* water_frequency = water_collection.sum().divide(water_count)
FreqDivide ==
    /\ freq_pc = "divide"
    /\ water_frequency' = ImageDivide(CollectionSum(water_collection), water_count)
    /\ freq_pc' = "return"
    /\ UNCHANGED <<water_collection, water_count, freq_error>>
    /\ UNCHANGED <<otsu_vars, ward_vars, mask_vars>>

\* return water_frequency, ward_thresholds
FreqReturn ==
    /\ freq_pc = "return"
    /\ freq_pc' = "done"
    /\ UNCHANGED <<water_collection, water_count, water_frequency, freq_error>>
    /\ UNCHANGED <<otsu_vars, ward_vars, mask_vars>>

FreqNext == FreqCount \/ FreqDivide \/ FreqReturn

\* Any one of the four functions, started on any of its inputs.
InitOtsu == OtsuInit /\ WardIdle /\ MaskIdle /\ FreqIdle
InitWard == OtsuIdle /\ WardInit /\ MaskIdle /\ FreqIdle
InitMask == OtsuIdle /\ WardIdle /\ MaskInit /\ FreqIdle
InitFreq == OtsuIdle /\ WardIdle /\ MaskIdle /\ FreqInit

Init == InitOtsu \/ InitWard \/ InitMask \/ InitFreq

Next == OtsuNext \/ WardNext \/ MaskNext \/ FreqNext

Spec == Init /\ [][Next]_vars

\* The solver alone, on every histogram of the bounds.
SpecOtsu == InitOtsu /\ [][OtsuNext]_vars

\* The per-ward calculation, on every assignment of outcomes to the wards.
SpecWard == InitWard /\ [][WardNext]_vars

\* The mask of one image, on every image, ward layout and threshold map.
SpecMask == InitMask /\ [][MaskNext]_vars

\* The frequency step, on every collection of masks.
SpecFreq == InitFreq /\ [][FreqNext]_vars

(***************************************************************************)
(* Properties of calculate_otsu_threshold.                                 *)
(***************************************************************************)
\* Split i leaves both classes non-empty.
NonDegenerate(h, i) == ACount(h, i) > 0 /\ BCount(h, i) > 0

Candidates(h) == {i \in 1..Size(h) : NonDegenerate(h, i)}

\* The between-class variance of a split with two non-empty classes, each class
\* mean taken over the class's own buckets.
ClassBCV(h, i) ==
    LET n == Size(h)
        cA == SumSeq(SubSeq(Counts(h), 1, i))
        cB == SumSeq(SubSeq(Counts(h), i + 1, n))
        sA == SumSeq(MultiplySeq(SubSeq(Means(h), 1, i), SubSeq(Counts(h), 1, i)))
        sB == SumSeq(MultiplySeq(SubSeq(Means(h), i + 1, n), SubSeq(Counts(h), i + 1, n)))
        mG == Rat(sA + sB, cA + cB)
        dA == subtract(Rat(sA, cA), mG)
        dB == subtract(Rat(sB, cB), mG)
    IN  add(multiply(Num(cA), multiply(dA, dA)), multiply(Num(cB), multiply(dB, dB)))

\* The threshold is the i-th bucket mean, the mean the sort pairs with split i.
ReturnsMeanOf(i) == threshold = Num(Means(histogram_dict)[i])

\* Split i has the greatest between-class variance of the splits with two
\* non-empty classes.
MaximalCandidate(h, i) ==
    /\ i \in Candidates(h)
    /\ \A j \in Candidates(h) : lte(ClassBCV(h, j), ClassBCV(h, i))

OtsuDone == otsu_pc = "done"

C2_ThresholdIsBucketMean ==
    OtsuDone => \E k \in 1..Size(histogram_dict) : ReturnsMeanOf(k)

C2_Witness ==
    /\ OtsuDone
    /\ Size(histogram_dict) >= 2
    /\ Candidates(histogram_dict) = {}
    /\ \E k \in 1..Size(histogram_dict) : ReturnsMeanOf(k)

\* The splits whose computed variance is the greatest of bss.
TiedSplits == {i \in 1..Len(bss) : \A j \in 1..Len(bss) : lte(bss[j], bss[i])}

\* C3: when several splits tie for the maximum between-class variance, the
\* threshold is the largest-valued bucket mean among the tied splits.
C3_LargestMeanAmongTies ==
    OtsuDone
        => \E i \in TiedSplits :
              /\ ReturnsMeanOf(i)
              /\ \A j \in TiedSplits :
                    Means(histogram_dict)[j] <= Means(histogram_dict)[i]

C3_Witness ==
    /\ OtsuDone
    /\ Cardinality(TiedSplits) >= 2
    /\ TiedSplits \subseteq Candidates(histogram_dict)
    /\ \E i \in TiedSplits : ReturnsMeanOf(i)

\* The buckets of positive count.
Occupied(h) == {k \in 1..Size(h) : Counts(h)[k] > 0}

\* C4 as stated: for a histogram with all mass in two buckets of means m1 < m2,
\* the threshold is m2, and the selected split has exactly the mass at m1 in
\* class A and the mass at m2 in class B.
C4_TwoClassReturnsUpperMean ==
    (OtsuDone /\ Cardinality(Occupied(histogram_dict)) = 2)
        => \E k1, k2 \in Occupied(histogram_dict) :
              /\ k1 < k2
              /\ ReturnsMeanOf(k2)
              /\ \E i \in TiedSplits :
                    /\ ACount(histogram_dict, i) = Counts(histogram_dict)[k1]
                    /\ BCount(histogram_dict, i) = Counts(histogram_dict)[k2]

\* C5: for the histogram [(-20,100),(-15,10),(-10,100)] the threshold is the
\* middle bucket mean -15, and neither -20 nor -10.
C5_ScenarioReturnsMiddle ==
    (OtsuDone /\ histogram_dict = ScenarioHistogram)
        => /\ threshold = Num(-15)
           /\ threshold # Num(-20)
           /\ threshold # Num(-10)

C5_Witness ==
    /\ OtsuDone
    /\ histogram_dict = ScenarioHistogram
    /\ TiedSplits = {1, 2}
    /\ ReturnsMeanOf(2)

\* The split the search would select among the given splits alone: the greatest
\* computed variance, the last of the splits that share it.
SelectedAmong(splits) ==
    CHOOSE i \in splits :
        /\ \A j \in splits : lte(bss[j], bss[i])
        /\ \A j \in splits : (lte(bss[i], bss[j]) => j <= i)

\* Every split with an empty class is skipped: it is not the selected split,
\* and the threshold is the one the search selects among the other splits.
DegenerateSkipped ==
    /\ \A i \in 1..Size(histogram_dict) :
          ReturnsMeanOf(i) => i \in Candidates(histogram_dict)
    /\ Candidates(histogram_dict) # {}
    /\ ReturnsMeanOf(SelectedAmong(Candidates(histogram_dict)))

\* C10 as stated: every candidate split in [1, N] that leaves a class empty is
\* skipped: never selected, and without influence on the selection.
C10_Original == OtsuDone => DegenerateSkipped

\* C10 amended: the same, whenever some candidate split has two non-empty classes.
C10_DegenerateSplitsSkipped ==
    (OtsuDone /\ Candidates(histogram_dict) # {}) => DegenerateSkipped

C10_Witness ==
    /\ OtsuDone
    /\ Candidates(histogram_dict) # {}
    /\ ACount(histogram_dict, 1) = 0
    /\ DegenerateSkipped

(***************************************************************************)
(* Properties of calculate_ward_specific_thresholds.                       *)
(***************************************************************************)
\* C6: every ward whose histogram retrieval or solving fails gets the fallback
\* threshold -15 and is flagged as fallback, not as calculated; the other wards
\* keep their own Otsu thresholds and the calculation completes.
C6_FallbackFlagged ==
    ward_pc = "done"
        => /\ Len(ward_thresholds) = Len(ward_histograms)
           /\ \A w \in 1..Len(ward_histograms) :
                 IF ward_histograms[w].raises
                 THEN /\ ward_thresholds[w] = Num(FallbackThreshold)
                      /\ features[w].threshold_calculated = FALSE
                 ELSE /\ ward_thresholds[w] =
                            calculate_otsu_threshold(ward_histograms[w].histogram)
                      /\ features[w].threshold_calculated = TRUE

(***************************************************************************)
(* Properties of detect_water_with_ward_thresholds.                        *)
(***************************************************************************)
\* Pixel p lies in a ward whose threshold its value is below.
WaterInSomeWard(p) ==
    \E r \in 1..Len(mask_thresholds) :
        p \in ward_geoms[r] /\ filtered_band[p].value < mask_thresholds[r]

\* C7: the returned mask is 1 at exactly the pixels that lie in some ward with a
\* value below that ward's threshold, and 0 at every other pixel, the pixels
\* outside all wards included.
C7_MaskIsUnionOfWards ==
    mask_pc = "done"
        => \A p \in DOMAIN filtered_band :
              water_mask[p] = ValidPixel(IF WaterInSomeWard(p) THEN 1 ELSE 0)

(***************************************************************************)
(* Properties of the frequency step of create_permanent_water_with_otsu.   *)
(***************************************************************************)
\* Pixel p holds a value, 0 or 1, in every mask of the collection.
BinaryAt(p) == \A k \in 1..Len(water_collection) : water_collection[k][p].mask = 1

RECURSIVE SumAt(_, _)
\* The sum of the first k masks' values at pixel p.
SumAt(k, p) == IF k = 0 THEN 0 ELSE water_collection[k][p].value + SumAt(k - 1, p)

\* C8: for N >= 1 binary masks the frequency at each pixel is (sum of the N mask
\* values)/N, within [0,1], exactly 1 where all masks are 1 and exactly 0 where
\* all masks are 0.
C8_FrequencyIsMean ==
    (freq_pc = "done" /\ Len(water_collection) >= 1)
        => \A p \in FreqPixels :
              BinaryAt(p) =>
                 LET n == Len(water_collection)
                     f == water_frequency[p]
                 IN  /\ f.mask = 1
                     /\ f.value.num * n = SumAt(n, p) * f.value.den
                     /\ lte(Num(0), f.value) /\ lte(f.value, Num(1))
                     /\ (SumAt(n, p) = n) => f.value = Num(1)
                     /\ (SumAt(n, p) = 0) => f.value = Num(0)

C8_Witness ==
    /\ freq_pc = "done"
    /\ Len(water_collection) >= 2
    /\ \E p, q \in FreqPixels :
          /\ BinaryAt(p) /\ BinaryAt(q)
          /\ SumAt(Len(water_collection), p) = Len(water_collection)
          /\ water_frequency[p].value = Num(1)
          /\ water_frequency[q].value = Rat(1, 2)

\* C9: with a collection of N = 0 masks the frequency step fails with
\* EmptySequence and returns no frequency surface.
C9_EmptySequenceFails ==
    (Len(water_collection) = 0 /\ freq_pc = "done")
        => /\ freq_error = "EmptySequence"
           /\ water_frequency = <<>>

====
